---- MODULE Spec2Model ----
(***************************************************************************)
(* Model of lib/index.js of catbox-memory-lru: a catbox cache connection   *)
(* that keeps serialized envelopes in an lru-cache bounded by byte weight  *)
(* and arms one setTimeout per stored envelope to drop it after its ttl.   *)
(*                                                                         *)
(* Text (keys, JSON payloads) is a sequence of one-character strings.      *)
(* JavaScript numbers that can exceed 2^31 - 1 (the ttl) are pairs         *)
(* <<hi, lo>> standing for hi * 2^16 + lo.  A Buffer is a reference into   *)
(* the heap, so that two holders of one Buffer see each other's writes.    *)
(***************************************************************************)
EXTENDS Integers, Sequences, FiniteSets, TLC

VARIABLES
    cache,      \* this.cache: alloc = FALSE is null; list = entries, most recently used first
    timers,     \* the runtime's timer table; a timeoutId is an index into it
    now,        \* Date.now() / the runtime clock, in milliseconds
    last,       \* what the last call handed to its callback (or threw)
    settings,   \* this.settings
    ticks,      \* process.nextTick queue: callbacks deferred by Hoek.nextTick
    heap        \* the Buffers that exist: heap[r] is the bytes of Buffer r

vars == <<cache, timers, now, last, settings, ticks, heap>>

-----------------------------------------------------------------------------
(* Bounds of the model *)

MaxTimers == 2      \* setTimeout calls in one behaviour
MaxTime == 3        \* the clock stops here
LruMax == 6         \* options.lru.max, the byte budget the connection is built with
MaxTicks == 1       \* callbacks waiting in the nextTick queue

-----------------------------------------------------------------------------
(* Numbers wider than 31 bits *)

Limb == 65536

Num(n) == <<n \div Limb, n % Limb>>

Gt(a, b) == a[1] > b[1] \/ (a[1] = b[1] /\ a[2] > b[2])

Succ(a) == IF a[2] = Limb - 1 THEN <<a[1] + 1, 0>> ELSE <<a[1], a[2] + 1>>

\* 2147483647, the largest delay of a timer (index.js line 176)
MaxTimeout == <<32767, 65535>>

-----------------------------------------------------------------------------
(* Inputs *)

Str(s) == [t |-> "string", chars |-> s]

Cyclic == [t |-> "cyclic", chars |-> <<>>]

\* the Buffer with reference r
Buf(r) == [t |-> "buffer", ref |-> r]

Keys == { [segment |-> <<"s">>, id |-> <<"1">>],
          [segment |-> <<"s">>, id |-> <<"2">>] }

\* a string whose payload is heavier than the byte budget
Heavy == Str([i \in 1..LruMax |-> "c"])

\* values and ttls of the runs that exercise expiry and eviction
Values == { Str(<<"a">>), Str(<<"b", "b">>) }

TTLs == { Num(1), Num(2) }

\* values and ttls of the runs that exercise the rejections of set
EdgeValues == { Str(<<"a">>), Heavy, Cyclic }

EdgeTTLs == { Num(1), MaxTimeout, Succ(MaxTimeout) }

-----------------------------------------------------------------------------
(* internals.defaults, internals.serialize, internals.deserialize *)

\* Hoek.applyToDefaults(internals.defaults, options)
Settings(allowMixedContent) ==
    [allowMixedContent |-> allowMixedContent, lru |-> [max |-> LruMax]]

\* a stored payload: JSON text, or a Buffer
Text(s) == [isBuffer |-> FALSE, text |-> s, ref |-> 0]

\* the Buffer with reference r, which has n bytes for as long as it exists
BufferAt(r, n) == [isBuffer |-> TRUE, text |-> <<>>, ref |-> r, size |-> n]

Quote == "\""

\* JSON.stringify throws a TypeError on a cyclic structure
StringifyThrows(value) == value.t = "cyclic"

\* JSON.stringify of a string without characters to escape
Stringify(value) == <<Quote>> \o value.chars \o <<Quote>>

\* allowMixedContent && Buffer.isBuffer(value)
Copies(value, allowMixedContent) == allowMixedContent /\ value.t = "buffer"

\* with allowMixedContent a Buffer is copied into a new Buffer; anything
\* else is stringified (Buffers are given to set only with allowMixedContent)
serialize(value, allowMixedContent) ==
    IF Copies(value, allowMixedContent)
    THEN BufferAt(Len(heap) + 1, Len(heap[value.ref]))
    ELSE Text(Stringify(value))

\* the heap after serialize: item = new Buffer(value.length); value.copy(item)
Allocate(value, allowMixedContent) ==
    IF Copies(value, allowMixedContent)
    THEN Append(heap, heap[value.ref])
    ELSE heap

\* JSON.parse accepts a payload that is one quoted string
ParseOk(text) ==
    /\ Len(text) >= 2
    /\ text[1] = Quote
    /\ text[Len(text)] = Quote
    /\ \A i \in 2..(Len(text) - 1) : text[i] # Quote

\* a deserialize whose catch hands back the text it could not parse
deserializeUnparsed(item) ==
    IF item.isBuffer
    THEN [error |-> FALSE, value |-> Buf(item.ref)]
    ELSE IF ParseOk(item.text)
    THEN [error |-> FALSE, value |-> Str(SubSeq(item.text, 2, Len(item.text) - 1))]
    ELSE [error |-> FALSE, value |-> Str(item.text)]

\* a Buffer is handed back as it is stored; text is parsed
deserialize(item) ==
    IF item.isBuffer
    THEN [error |-> FALSE, value |-> Buf(item.ref)]
    ELSE IF ParseOk(item.text)
    THEN [error |-> FALSE, value |-> Str(SubSeq(item.text, 2, Len(item.text) - 1))]
    ELSE [error |-> TRUE, value |-> Str(<<>>)]

\* a store built without the length function counts every entry as 1
lengthOfOne(envelope) == 1

\* settings.lru.length: value.length of a Buffer, Buffer.byteLength of text
\* (one byte per character here)
length(envelope) ==
    IF envelope.item.isBuffer
    THEN envelope.item.size
    ELSE Len(envelope.item.text)

Envelope(value, ttl) ==
    [item |-> serialize(value, settings.allowMixedContent),
     stored |-> now,
     ttl |-> ttl,
     timeoutId |-> 0]

generateKey(key) == key.segment \o <<":">> \o key.id

\* the character U+0000
Nul == "NUL"

Null == "null"

\* validateSegmentName: an Error, or null for a name it accepts
validateSegmentName(name) ==
    IF name = <<>>
    THEN "Empty string"
    ELSE IF \E i \in 1..Len(name) : name[i] = Nul
    THEN "Includes null character"
    ELSE Null

-----------------------------------------------------------------------------
(* The lru-cache the connection stores its envelopes in: a list of         *)
(* [key, value] entries, most recently used first.                         *)

RECURSIVE SumLength(_)
SumLength(list) ==
    IF list = <<>> THEN 0 ELSE length(Head(list).value) + SumLength(Tail(list))

LruIndex(list, k) ==
    IF \E i \in 1..Len(list) : list[i].key = k
    THEN CHOOSE i \in 1..Len(list) : list[i].key = k
    ELSE 0

LruWithout(list, k) == SelectSeq(list, LAMBDA e : e.key # k)

\* cache.peek(k): the value or undefined (<<>>), recency untouched
LruPeek(list, k) ==
    IF LruIndex(list, k) = 0 THEN <<>> ELSE <<list[LruIndex(list, k)].value>>

\* cache.get(k) moves the entry to the front
LruTouch(list, k) ==
    IF LruIndex(list, k) = 0
    THEN list
    ELSE <<list[LruIndex(list, k)]>> \o LruWithout(list, k)

\* trim: delete from the least recently used end while over budget
RECURSIVE LruTrim(_)
LruTrim(list) ==
    IF list # <<>> /\ SumLength(list) > settings.lru.max
    THEN LruTrim(SubSeq(list, 1, Len(list) - 1))
    ELSE list

\* cache.set(k, v): a value heavier than max is not stored and deletes the
\* entry it would have replaced; otherwise the entry goes to the front and
\* the list is trimmed
LruSet(list, k, v) ==
    IF length(v) > settings.lru.max
    THEN LruWithout(list, k)
    ELSE LruTrim(<<[key |-> k, value |-> v]>> \o LruWithout(list, k))

LruDel(list, k) == LruWithout(list, k)

\* timeoutIds of the envelopes in a list
Resident(list) == { list[i].value.timeoutId : i \in 1..Len(list) }

-----------------------------------------------------------------------------
(* Timers of the runtime *)

\* setTimeout raises a delay below 1 to 1
TimerDelay(ttl) == IF Gt(Num(1), ttl) THEN Num(1) ELSE ttl

Due(t) == ~Gt(timers[t].delay, Num(now - timers[t].armedAt))

Armed(t) == t \in 1..Len(timers) /\ timers[t].status = "armed"

KeyOf(t) == generateKey(timers[t].key)

\* the armed timers whose function drops the entry under cache key k
ArmedFor(k) == { t \in 1..Len(timers) : timers[t].status = "armed" /\ KeyOf(t) = k }

ClearTimeouts(tm, ids) ==
    [t \in 1..Len(tm) |->
        IF t \in ids /\ tm[t].status = "armed"
        THEN [tm[t] EXCEPT !.status = "cleared"]
        ELSE tm[t]]

-----------------------------------------------------------------------------
(* Callback results *)

NoError == "none"
ConnectionError == "Connection not started"
InvalidTTLError == "Invalid ttl (greater than 2147483647)"
SerializationError == "TypeError: Converting circular structure to JSON"
CorruptionError == "Bad value content"
NullDeref == "TypeError: Cannot read property 'forEach' of null"

NoKey == [segment |-> <<>>, id |-> <<>>]

Outcome(op, key, err, result) ==
    [op |-> op, key |-> key, err |-> err, result |-> result]

\* a callback wrapped by Hoek.nextTick runs its arguments at once
nextTickNow(queue, outcome) == queue

\* Hoek.nextTick(callback): calling the wrapper queues the callback with its
\* arguments for process.nextTick
nextTick(queue, outcome) == Append(queue, outcome)

-----------------------------------------------------------------------------
(* The connection *)

Init ==
    /\ cache = [alloc |-> FALSE, list |-> <<>>]
    /\ timers = <<>>
    /\ now = 0
    /\ last = Outcome("new", NoKey, NoError, <<>>)
    /\ settings = Settings(FALSE)
    /\ ticks = <<>>
    /\ heap = <<>>

isReady == cache.alloc

\* a start that allocates a store whenever it is called
startAnew ==
    /\ Len(ticks) < MaxTicks
    /\ cache' = [alloc |-> TRUE, list |-> <<>>]
    /\ last' = Outcome("start", NoKey, NoError, <<>>)
    /\ ticks' = nextTick(ticks, last')
    /\ UNCHANGED <<timers, now, settings, heap>>

start ==
    /\ Len(ticks) < MaxTicks
    /\ cache' = IF ~cache.alloc THEN [alloc |-> TRUE, list |-> <<>>] ELSE cache
    /\ last' = Outcome("start", NoKey, NoError, <<>>)
    /\ ticks' = nextTick(ticks, last')
    /\ UNCHANGED <<timers, now, settings, heap>>

\* a stop that clears the timers and keeps the store
stopKeepsStore ==
    /\ IF ~cache.alloc
       THEN /\ last' = Outcome("stop", NoKey, NullDeref, <<>>)
            /\ UNCHANGED <<cache, timers, now>>
       ELSE /\ timers' = ClearTimeouts(timers, Resident(cache.list))
            /\ last' = Outcome("stop", NoKey, NoError, <<>>)
            /\ UNCHANGED <<cache, now>>
    /\ UNCHANGED <<settings, ticks, heap>>

stop ==
    /\ IF ~cache.alloc
       THEN /\ last' = Outcome("stop", NoKey, NullDeref, <<>>)
            /\ UNCHANGED <<cache, timers, now>>
       ELSE /\ timers' = ClearTimeouts(timers, Resident(cache.list))
            /\ cache' = [alloc |-> FALSE, list |-> <<>>]
            /\ last' = Outcome("stop", NoKey, NoError, <<>>)
            /\ UNCHANGED now
    /\ UNCHANGED <<settings, ticks, heap>>

get(key) ==
    LET cacheKey == generateKey(key)
        envelope == LruPeek(cache.list, cacheKey)
    IN  /\ Len(ticks) < MaxTicks
        /\ IF ~cache.alloc
           THEN /\ last' = Outcome("get", key, ConnectionError, <<>>)
                /\ UNCHANGED <<cache, timers, now>>
           ELSE /\ cache' = [cache EXCEPT !.list = LruTouch(cache.list, cacheKey)]
                /\ last' =
                     IF envelope = <<>>
                     THEN Outcome("get", key, NoError, <<>>)
                     ELSE IF deserialize(envelope[1].item).error
                     THEN Outcome("get", key, CorruptionError, <<>>)
                     ELSE Outcome("get", key, NoError,
                                  <<[item |-> deserialize(envelope[1].item).value,
                                     stored |-> envelope[1].stored,
                                     ttl |-> envelope[1].ttl]>>)
                /\ UNCHANGED <<timers, now>>
        /\ ticks' = nextTick(ticks, last')
        /\ UNCHANGED <<settings, heap>>

\* a connection that forgets to look at this.cache
NotStartedUnchecked == FALSE

\* if (!this.cache)
NotStarted == ~cache.alloc

\* a comparison that is off by one: ttl >= 2147483647
InvalidTtlFromMax(ttl) == ~Gt(MaxTimeout, ttl)

\* if (ttl > 2147483647)
InvalidTtl(ttl) == Gt(ttl, MaxTimeout)

\* a set that leaves the timer of the entry it replaces alone
CancelCachedNever(tm, cachedItem) == tm

\* if (cachedItem && cachedItem.timeoutId) clearTimeout(cachedItem.timeoutId)
CancelCached(tm, cachedItem) ==
    IF cachedItem # <<>> /\ cachedItem[1].timeoutId # 0
    THEN ClearTimeouts(tm, {cachedItem[1].timeoutId})
    ELSE tm

\* a set that looks up and cancels the cached entry before it builds the
\* envelope
EnvelopeThrewLate(key) ==
    /\ last' = Outcome("set", key, SerializationError, <<>>)
    /\ timers' = ClearTimeouts(timers, Resident(cache.list) \cap ArmedFor(generateKey(key)))
    /\ UNCHANGED <<cache, now>>

\* catch (err) { return callback(err); } around new internals.Envelope
EnvelopeThrew(key) ==
    /\ last' = Outcome("set", key, SerializationError, <<>>)
    /\ UNCHANGED <<cache, timers, now>>

set(key, value, ttl) ==
    LET cacheKey == generateKey(key)
        cachedItem == LruPeek(cache.list, cacheKey)
        timeoutId == Len(timers) + 1
        envelope == [Envelope(value, ttl) EXCEPT !.timeoutId = timeoutId]
        newList == LruSet(cache.list, cacheKey, envelope)
    IN  /\ Len(ticks) < MaxTicks
        /\ IF NotStarted
           THEN /\ last' = Outcome("set", key, ConnectionError, <<>>)
                /\ UNCHANGED <<cache, timers, now, heap>>
           ELSE IF InvalidTtl(ttl)
           THEN /\ last' = Outcome("set", key, InvalidTTLError, <<>>)
                /\ UNCHANGED <<cache, timers, now, heap>>
           ELSE IF StringifyThrows(value)
           THEN EnvelopeThrew(key) /\ UNCHANGED heap
           ELSE /\ Len(timers) < MaxTimers
                /\ heap' = Allocate(value, settings.allowMixedContent)
                /\ timers' = Append(CancelCached(timers, cachedItem),
                                    [key |-> key, armedAt |-> now,
                                     delay |-> TimerDelay(ttl), status |-> "armed"])
                /\ cache' = [cache EXCEPT !.list = newList]
                /\ last' = Outcome("set", key, NoError, <<>>)
                /\ UNCHANGED now
        /\ ticks' = nextTick(ticks, last')
        /\ UNCHANGED settings

\* a drop that deletes under the key's id instead of the generated key
DropKeyById(key, op) ==
    /\ Len(ticks) < MaxTicks
    /\ IF NotStarted
       THEN /\ last' = Outcome(op, key, ConnectionError, <<>>)
            /\ UNCHANGED cache
       ELSE /\ cache' = [cache EXCEPT !.list = LruDel(cache.list, key.id)]
            /\ last' = Outcome(op, key, NoError, <<>>)
    /\ ticks' = nextTick(ticks, last')

\* a drop that reports a key it does not find
DropKeyStrict(key, op) ==
    LET cacheKey == generateKey(key)
    IN  /\ Len(ticks) < MaxTicks
        /\ IF NotStarted
           THEN /\ last' = Outcome(op, key, ConnectionError, <<>>)
                /\ UNCHANGED cache
           ELSE IF LruPeek(cache.list, cacheKey) = <<>>
           THEN /\ last' = Outcome(op, key, "Not found", <<>>)
                /\ UNCHANGED cache
           ELSE /\ cache' = [cache EXCEPT !.list = LruDel(cache.list, cacheKey)]
                /\ last' = Outcome(op, key, NoError, <<>>)
        /\ ticks' = nextTick(ticks, last')

\* the body of drop; op tells a caller's drop from the one a timer makes,
\* whose callback ignores the error
DropKey(key, op) ==
    LET cacheKey == generateKey(key)
    IN  /\ Len(ticks) < MaxTicks
        /\ IF NotStarted
           THEN /\ last' = Outcome(op, key, ConnectionError, <<>>)
                /\ UNCHANGED cache
           ELSE /\ cache' = [cache EXCEPT !.list = LruDel(cache.list, cacheKey)]
                /\ last' = Outcome(op, key, NoError, <<>>)
        /\ ticks' = nextTick(ticks, last')

drop(key) ==
    /\ DropKey(key, "drop")
    /\ UNCHANGED <<timers, now, settings, heap>>

\* a timer function that deletes from this.cache without looking at it, and
\* throws when there is none
timeoutUnguarded(t) ==
    /\ ticks = <<>>
    /\ Armed(t)
    /\ Due(t)
    /\ timers' = [timers EXCEPT ![t].status = "fired"]
    /\ IF NotStarted
       THEN /\ last' = Outcome("timeout", timers[t].key,
                              "TypeError: Cannot read property 'del' of null", <<>>)
            /\ UNCHANGED <<cache, ticks>>
       ELSE DropKey(timers[t].key, "timeout")
    /\ UNCHANGED <<now, settings, heap>>

\* the function given to setTimeout in set: self.drop(key, function () { });
\* the runtime runs timers only when the nextTick queue is empty
timeout(t) ==
    /\ ticks = <<>>
    /\ Armed(t)
    /\ Due(t)
    /\ timers' = [timers EXCEPT ![t].status = "fired"]
    /\ DropKey(timers[t].key, "timeout")
    /\ UNCHANGED <<now, settings, heap>>

\* the runtime runs the first callback of the nextTick queue
tickCallback ==
    /\ ticks # <<>>
    /\ ticks' = Tail(ticks)
    /\ UNCHANGED <<cache, timers, now, last, settings, heap>>

\* a millisecond passes; the nextTick queue is drained within the turn
Tick ==
    /\ ticks = <<>>
    /\ now < MaxTime
    /\ now' = now + 1
    /\ UNCHANGED <<cache, timers, last, settings, ticks, heap>>

\* the calls a client makes with keys, values and ttls of the given sets,
\* the callbacks and timers the runtime runs and the passing of time
Calls(keys, values, ttls) ==
    \/ start
    \/ stop
    \/ \E key \in keys : get(key)
    \/ \E key \in keys, value \in values, ttl \in ttls : set(key, value, ttl)
    \/ \E key \in keys : drop(key)
    \/ \E t \in 1..MaxTimers : timeout(t)
    \/ tickCallback
    \/ Tick

Run(values, ttls) == Calls(Keys, values, ttls)

Next == Run(Values, TTLs)

Spec == Init /\ [][Next]_vars

NextEdge == Run(EdgeValues, EdgeTTLs)

SpecEdge == Init /\ [][NextEdge]_vars

\* a test reaches into the store and overwrites the closing quote of a
\* resident payload, which JSON.parse then refuses
corrupt(key) ==
    LET cacheKey == generateKey(key)
        i == LruIndex(cache.list, cacheKey)
        text == cache.list[i].value.item.text
    IN  /\ isReady
        /\ i # 0
        /\ ~cache.list[i].value.item.isBuffer
        /\ ParseOk(text)
        /\ cache' = [cache EXCEPT !.list[i].value.item.text[Len(text)] = "x"]
        /\ UNCHANGED <<timers, now, last, settings, ticks, heap>>

\* values and ttls of the runs in which payloads get corrupted
CorruptValues == { Str(<<"a">>) }

CorruptTTLs == { Num(1) }

NextCorrupt ==
    \/ Run(CorruptValues, CorruptTTLs)
    \/ \E key \in Keys : corrupt(key)

SpecCorrupt == Init /\ [][NextCorrupt]_vars

\* keys a caller may come up with; the policy above the connection uses a
\* segment only if validateSegmentName accepts it
KeyPool ==
    { [segment |-> <<"a", ":", "b">>, id |-> <<"c">>],
      [segment |-> <<"a">>, id |-> <<"b", ":", "c">>],
      [segment |-> <<"a">>, id |-> <<"c">>],
      [segment |-> <<>>, id |-> <<"c">>],
      [segment |-> <<"a", Nul>>, id |-> <<"c">>] }

AcceptedKeys == { key \in KeyPool : validateSegmentName(key.segment) = Null }

NextKeys == Calls(AcceptedKeys, CorruptValues, CorruptTTLs)

SpecKeys == Init /\ [][NextKeys]_vars

\* one key, and values and ttls that take a call down each of its return
\* paths
PathKeys == { [segment |-> <<"s">>, id |-> <<"1">>] }

PathValues == { Str(<<"a">>), Cyclic }

PathTTLs == { Num(1), Succ(MaxTimeout) }

NextPaths ==
    \/ Calls(PathKeys, PathValues, PathTTLs)
    \/ \E key \in PathKeys : corrupt(key)

SpecPaths == Init /\ [][NextPaths]_vars

\* a connection built with allowMixedContent, and a caller that holds one
\* Buffer of one byte
InitMixed ==
    /\ cache = [alloc |-> FALSE, list |-> <<>>]
    /\ timers = <<>>
    /\ now = 0
    /\ last = Outcome("new", NoKey, NoError, <<>>)
    /\ settings = Settings(TRUE)
    /\ ticks = <<>>
    /\ heap = << <<0>> >>

\* the Buffers the caller holds: its own, and the one the callback of its
\* last get was given
Held ==
    {1} \cup { r \in 1..Len(heap) :
                /\ ticks = <<>>
                /\ last.op = "get"
                /\ last.result # <<>>
                /\ last.result[1].item = Buf(r) }

\* the caller writes into a Buffer it holds
write(r) ==
    /\ r \in Held
    /\ heap' = [heap EXCEPT ![r] = <<1 - heap[r][1]>>]
    /\ UNCHANGED <<cache, timers, now, last, settings, ticks>>

MixedValues == { Buf(1), Str(<<"a">>) }

NextMixed ==
    \/ Calls(PathKeys, MixedValues, CorruptTTLs)
    \/ \E r \in 1..(MaxTimers + 1) : write(r)

SpecMixed == InitMixed /\ [][NextMixed]_vars

TypeOK ==
    /\ cache.alloc \in BOOLEAN
    /\ Len(timers) <= MaxTimers
    /\ now \in 0..MaxTime
    /\ ~cache.alloc => cache.list = <<>>
    /\ Len(ticks) <= MaxTicks
    /\ settings.allowMixedContent \in BOOLEAN

-----------------------------------------------------------------------------
(* Properties of the expiration timers *)

\* the timers of the envelopes a step takes out of the store
Removed == Resident(cache.list) \ Resident(cache'.list)

\* C1: on a started connection every resident key has exactly one armed
\* timer that targets it, the one of its current envelope.
C1_OneArmedTimerPerKey ==
    isReady =>
        \A i \in 1..Len(cache.list) :
            ArmedFor(cache.list[i].key) = {cache.list[i].value.timeoutId}

\* C2: drop(key) on a started connection leaves the timer of the entry it
\* removes not armed.
C2_DropCancelsTimer ==
    [][\A key \in Keys :
          drop(key) /\ isReady =>
              \A t \in Removed : timers'[t].status # "armed"]_vars

\* C3: when a set evicts an entry under another key, the timer of the
\* evicted envelope is not armed afterwards.
C3_EvictionCancelsTimer ==
    [][\A key \in Keys, value \in Values, ttl \in TTLs :
          isReady /\ last'.op = "set" /\ set(key, value, ttl) =>
              \A t \in Removed :
                  KeyOf(t) # generateKey(key) => timers'[t].status # "armed"]_vars

\* C4: an entry stays resident, so that get returns its value, until its ttl
\* has elapsed, unless a set or drop of its key, a stop or an eviction takes
\* it out: the firing of a timer removes no entry younger than its ttl.
C4_ResidentUntilTtl ==
    [][\A t \in 1..Len(timers) :
          timeout(t) =>
              \A i \in 1..Len(cache.list) :
                  cache.list[i].value.timeoutId \in Removed =>
                      ~Gt(cache.list[i].value.ttl,
                          Num(now - cache.list[i].value.stored))]_vars

\* C7: after stop() has returned no timer is armed, the store is empty and
\* isReady() is false.
C7_StopCancelsEveryTimer ==
    [][stop /\ isReady =>
          /\ \A t \in 1..Len(timers') : timers'[t].status # "armed"
          /\ cache'.list = <<>>
          /\ ~cache'.alloc]_vars

\* C5: once the timer of the last set of a key has fired, get of that key on
\* a started connection is a clean miss, and no envelope is resident after
\* its own timer has fired.
C5_MissAfterTimerFired ==
    [][/\ \A key \in Keys :
            (/\ get(key)
             /\ isReady
             /\ \E t \in 1..Len(timers) :
                    /\ timers[t].status = "fired"
                    /\ KeyOf(t) = generateKey(key)
                    /\ \A u \in (t + 1)..Len(timers) : KeyOf(u) # generateKey(key))
            => last'.err = NoError /\ last'.result = <<>>
       /\ \A t \in 1..Len(timers') :
            timers'[t].status = "fired" => t \notin Resident(cache'.list)]_vars

\* a get that missed on a started connection after the timer of the key's
\* last set fired
C5_Witness ==
    /\ isReady
    /\ last.op = "get" /\ last.err = NoError /\ last.result = <<>>
    /\ \E t \in 1..Len(timers) :
          /\ timers[t].status = "fired"
          /\ timers[t].key = last.key
          /\ \A u \in (t + 1)..Len(timers) : timers[u].key # last.key

\* C6: a set on a resident key clears the timer of the entry it replaces, a
\* cleared timer stays cleared (it never fires), and the new entry is taken
\* out by its own timer, which fires no earlier than its own ttl after the
\* second set.
C6_ReplaceCancelsOldTimer ==
    [][/\ \A key \in Keys, value \in Values, ttl \in TTLs :
            last'.op = "set" /\ last'.err = NoError /\ set(key, value, ttl) =>
                \A t \in Resident(cache.list) :
                    KeyOf(t) = generateKey(key) => timers'[t].status = "cleared"
       /\ \A t \in 1..Len(timers) :
            timers[t].status = "cleared" => timers'[t].status = "cleared"
       /\ \A t \in 1..Len(timers) :
            timeout(t) /\ t \in Resident(cache.list) =>
                /\ LruPeek(cache'.list, KeyOf(t)) = <<>>
                /\ \A i \in 1..Len(cache.list) :
                      cache.list[i].value.timeoutId = t =>
                          ~Gt(cache.list[i].value.ttl,
                              Num(now - cache.list[i].value.stored))]_vars

\* the timer of a replacing set with the longer ttl has fired and emptied the
\* key, after the shorter ttl of the replaced entry, whose timer was cleared,
\* had run out
C6_Witness ==
    /\ isReady
    /\ last.op = "timeout" /\ last.err = NoError
    /\ \E t \in 1..Len(timers), u \in 1..Len(timers) :
          /\ t < u
          /\ timers[t].key = last.key /\ timers[u].key = last.key
          /\ timers[t].status = "cleared"
          /\ timers[u].status = "fired"
          /\ Gt(timers[u].delay, timers[t].delay)
          /\ timers[u].armedAt = timers[t].armedAt
          /\ LruPeek(cache.list, KeyOf(u)) = <<>>

-----------------------------------------------------------------------------
(* Properties of the rejections *)

\* C8: get, set and drop hand ConnectionError to their callback exactly when
\* the connection is not ready, and then leave the store and the timers as
\* they were.
C8_NotStartedGuard ==
    [][\A key \in Keys :
          /\ get(key) =>
                /\ (last'.err = ConnectionError) <=> ~isReady
                /\ ~isReady => UNCHANGED <<cache, timers>>
          /\ drop(key) =>
                /\ (last'.err = ConnectionError) <=> ~isReady
                /\ ~isReady => UNCHANGED <<cache, timers>>
          /\ \A value \in Values, ttl \in TTLs :
                set(key, value, ttl) =>
                    /\ (last'.err = ConnectionError) <=> ~isReady
                    /\ ~isReady => UNCHANGED <<cache, timers>>]_vars

\* a set refused on a connection that was stopped after it had armed a timer
C8_Witness ==
    /\ ~isReady
    /\ cache.list = <<>>
    /\ last.op = "set" /\ last.err = ConnectionError
    /\ Len(timers) > 0

\* C9: on a started connection a set with ttl above 2147483647 hands
\* InvalidTTLError to its callback and changes neither the store nor the
\* timers; a set with ttl 2147483647 of a value that serializes and fits the
\* byte budget succeeds, stores the envelope and arms its timer.
C9_TtlBoundary ==
    [][\A key \in Keys, value \in EdgeValues, ttl \in EdgeTTLs :
          isReady /\ last'.op = "set" /\ last'.key = key /\ set(key, value, ttl) =>
              /\ Gt(ttl, MaxTimeout) =>
                    /\ last'.err = InvalidTTLError
                    /\ UNCHANGED <<cache, timers>>
              /\ (/\ ttl = MaxTimeout
                  /\ ~StringifyThrows(value)
                  /\ Len(Stringify(value)) <= settings.lru.max) =>
                    /\ last'.err = NoError
                    /\ LruPeek(cache'.list, generateKey(key)) # <<>>
                    /\ LruPeek(cache'.list, generateKey(key))[1].ttl = MaxTimeout
                    /\ LruPeek(cache'.list, generateKey(key))[1].item = Text(Stringify(value))
                    /\ LruPeek(cache'.list, generateKey(key))[1].timeoutId = Len(timers')
                    /\ timers'[Len(timers')].status = "armed"]_vars

\* a set with too large a ttl was refused under a key that holds an entry
\* stored with ttl 2147483647, whose timer is still armed
C9_Witness ==
    /\ isReady
    /\ last.op = "set" /\ last.err = InvalidTTLError
    /\ LruPeek(cache.list, generateKey(last.key)) # <<>>
    /\ LruPeek(cache.list, generateKey(last.key))[1].ttl = MaxTimeout
    /\ Armed(LruPeek(cache.list, generateKey(last.key))[1].timeoutId)

\* C10: a set of a value that cannot be serialized, with an accepted ttl on
\* a started connection, hands the serialization error to its callback and
\* changes neither the store nor the timers, so an entry resident under the
\* key keeps its envelope and its armed timer.
C10_SerializationFailure ==
    [][\A key \in Keys, ttl \in EdgeTTLs :
          isReady /\ ~Gt(ttl, MaxTimeout) /\ last'.op = "set" /\ set(key, Cyclic, ttl) =>
              /\ last'.err = SerializationError
              /\ UNCHANGED <<cache, timers>>]_vars

\* a set of a cyclic value was refused under a key that holds an entry whose
\* timer is still armed
C10_Witness ==
    /\ isReady
    /\ last.op = "set" /\ last.err = SerializationError
    /\ LruPeek(cache.list, generateKey(last.key)) # <<>>
    /\ Armed(LruPeek(cache.list, generateKey(last.key))[1].timeoutId)

-----------------------------------------------------------------------------
(* Properties of the store *)

\* the bytes of the payloads in the store; stored, ttl and timeoutId weigh
\* nothing
RECURSIVE PayloadBytes(_)
PayloadBytes(list) ==
    IF list = <<>>
    THEN 0
    ELSE (IF Head(list).value.item.isBuffer
          THEN Len(heap[Head(list).value.item.ref])
          ELSE Len(Head(list).value.item.text))
         + PayloadBytes(Tail(list))

\* C11: the payloads of the resident entries never weigh more than lru.max
\* together.
C11_WeightWithinMax ==
    isReady => PayloadBytes(cache.list) <= settings.lru.max

\* a set has just stored an entry that weighs more than half of lru.max, the
\* store holds it alone, and the timer armed in the same millisecond for
\* the other key is still armed
C11_Witness ==
    /\ isReady
    /\ last.op = "set" /\ last.err = NoError
    /\ Len(cache.list) = 1
    /\ cache.list[1].key = generateKey(last.key)
    /\ 2 * PayloadBytes(cache.list) > settings.lru.max
    /\ \E t \in 1..Len(timers) :
          /\ Armed(t)
          /\ KeyOf(t) # generateKey(last.key)
          /\ timers[t].armedAt = now

\* C12: drop of a key that is not resident, on a started connection, hands
\* no error to its callback and leaves the entries, their order and the
\* timers as they were.
C12_DropAbsentKey ==
    [][\A key \in Keys :
          (/\ isReady
           /\ LruPeek(cache.list, generateKey(key)) = <<>>
           /\ drop(key))
          => /\ last'.err = NoError
             /\ UNCHANGED <<cache, timers>>]_vars

\* a drop of a key no set ever stored, while every entry ever stored is
\* resident with its timer armed
C12_Witness ==
    /\ isReady
    /\ last.op = "drop" /\ last.err = NoError
    /\ Len(timers) > 0
    /\ \A t \in 1..Len(timers) :
          /\ Armed(t)
          /\ t \in Resident(cache.list)
          /\ timers[t].key # last.key

\* C13: start on a started connection allocates nothing and leaves the
\* entries and the timers as they were.
C13_StartIdempotent ==
    [][isReady /\ start =>
          /\ last'.err = NoError
          /\ UNCHANGED <<cache, timers>>]_vars

\* a start called while an entry is resident with its timer armed
C13_Witness ==
    /\ isReady
    /\ last.op = "start"
    /\ cache.list # <<>>
    /\ \A i \in 1..Len(cache.list) : Armed(cache.list[i].value.timeoutId)

\* the envelope resident under a key has a payload that JSON.parse refuses
Corrupted(key) ==
    /\ LruPeek(cache.list, generateKey(key)) # <<>>
    /\ ~LruPeek(cache.list, generateKey(key))[1].item.isBuffer
    /\ ~ParseOk(LruPeek(cache.list, generateKey(key))[1].item.text)

\* C14: get of a resident key whose payload cannot be parsed hands
\* CorruptionError and no result to its callback, and leaves every envelope
\* in the store and every timer as it was.
C14_CorruptionReported ==
    [][\A key \in Keys :
          isReady /\ Corrupted(key) /\ get(key) =>
              /\ last'.err = CorruptionError
              /\ last'.result = <<>>
              /\ LruPeek(cache'.list, generateKey(key)) = LruPeek(cache.list, generateKey(key))
              /\ Resident(cache'.list) = Resident(cache.list)
              /\ timers' = timers]_vars

\* a get has reported the corruption of an entry that is still resident with
\* its timer armed
C14_Witness ==
    /\ isReady
    /\ last.op = "get" /\ last.err = CorruptionError
    /\ Corrupted(last.key)
    /\ Armed(LruPeek(cache.list, generateKey(last.key))[1].timeoutId)

-----------------------------------------------------------------------------
(* Properties of the keys *)

\* C15: generateKey gives different strings for different pairs with an
\* accepted segment: when set or drop is called with one pair, no entry
\* stored under another pair has the same generated key, and a drop leaves
\* the entries of the other pairs in the store.
C15_GenerateKeyInjective ==
    [][\A key \in AcceptedKeys :
          (/\ isReady
           /\ last'.key = key
           /\ \/ drop(key)
              \/ \E value \in CorruptValues, ttl \in CorruptTTLs : set(key, value, ttl))
          => \A t \in Resident(cache.list) :
                timers[t].key # key =>
                    /\ KeyOf(t) # generateKey(key)
                    /\ last'.op = "drop" => t \in Resident(cache'.list)]_vars

-----------------------------------------------------------------------------
(* Properties of the callbacks *)

\* a step that is a call of start, get, set or drop
IsCall ==
    \/ start
    \/ \E key \in PathKeys :
          \/ get(key)
          \/ drop(key)
          \/ \E value \in PathValues, ttl \in PathTTLs : set(key, value, ttl)

\* C16: a call of start, get, set or drop, whatever its outcome, queues its
\* callback once, behind the callbacks already waiting, and does not run it;
\* the store already shows the effect of the call; a queued callback is run
\* once, by the runtime, in a step that is no part of a call.
C16_CallbackDeferred ==
    [][/\ IsCall =>
            /\ ticks' = Append(ticks, last')
            /\ last'.op = "start" => cache'.alloc
            /\ (last'.op = "set" /\ last'.err = NoError) =>
                  /\ Len(timers') = Len(timers) + 1
                  /\ Len(timers') \in Resident(cache'.list)
            /\ (last'.op = "drop" /\ last'.err = NoError) =>
                  LruPeek(cache'.list, generateKey(last'.key)) = <<>>
       /\ (ticks # <<>> /\ ticks' = Tail(ticks)) =>
            UNCHANGED <<cache, timers, last>> /\ ~IsCall
       /\ \/ ticks' = ticks
          \/ ticks' = Append(ticks, last')
          \/ ticks # <<>> /\ ticks' = Tail(ticks)]_vars

\* a set has stored its entry and armed its timer while its callback is
\* still waiting in the queue
C16_Witness ==
    /\ ticks # <<>>
    /\ ticks[Len(ticks)] = last
    /\ last.op = "set" /\ last.err = NoError
    /\ Len(timers) \in Resident(cache.list)
    /\ Armed(Len(timers))

-----------------------------------------------------------------------------
(* Properties of mixed content *)

\* C17: with allowMixedContent no write of the caller into a Buffer it
\* holds, the one it gave to set or the one a get gave it, changes the bytes
\* of a stored payload.
C17_StoredBufferNotAliased ==
    [][\A r \in 1..Len(heap) :
          write(r) =>
              \A i \in 1..Len(cache.list) :
                  cache.list[i].value.item.isBuffer =>
                      heap'[cache.list[i].value.item.ref]
                          = heap[cache.list[i].value.item.ref]]_vars

\* the half of C17 that the copy in serialize secures: a write into the
\* Buffer that was given to set leaves every stored payload as it was
C17_SetCopiesBuffer ==
    [][write(1) =>
          \A i \in 1..Len(cache.list) :
              cache.list[i].value.item.isBuffer =>
                  heap'[cache.list[i].value.item.ref]
                      = heap[cache.list[i].value.item.ref]]_vars

-----------------------------------------------------------------------------
(* Properties of set and of the timers of resident entries *)

\* C18: a set that hands no error to its callback leaves its key resident
\* with the new envelope, whatever the payload weighs: the envelope carries
\* its timer, the time of the set and its ttl, and its payload deserializes
\* to the value, which is what a get that follows at once returns.
C18_SetLeavesKeyResident ==
    [][\A key \in Keys, value \in EdgeValues, ttl \in EdgeTTLs :
          (/\ isReady
           /\ last'.op = "set" /\ last'.err = NoError /\ last'.key = key
           /\ ~StringifyThrows(value)
           /\ set(key, value, ttl))
          => /\ LruPeek(cache'.list, generateKey(key)) # <<>>
             /\ LruPeek(cache'.list, generateKey(key))[1].timeoutId = Len(timers')
             /\ LruPeek(cache'.list, generateKey(key))[1].stored = now
             /\ LruPeek(cache'.list, generateKey(key))[1].ttl = ttl
             /\ deserialize(LruPeek(cache'.list, generateKey(key))[1].item)
                    = [error |-> FALSE, value |-> value]]_vars

\* C19: a timer that fires while the connection is stopped changes nothing
\* but its own state: its drop gets the not-started error, which goes to the
\* empty function it was given, no store is allocated and isReady() stays
\* false.
C19_TimerWhileStopped ==
    [][\A t \in 1..Len(timers) :
          ~isReady /\ timeout(t) =>
              /\ last' = Outcome("timeout", timers[t].key, ConnectionError, <<>>)
              /\ ticks' = <<last'>>
              /\ cache' = cache
              /\ ~cache'.alloc
              /\ timers' = [timers EXCEPT ![t].status = "fired"]]_vars

\* a timer has fired on a stopped connection
C19_Witness ==
    /\ ~isReady
    /\ last.op = "timeout" /\ last.err = ConnectionError
    /\ \E t \in 1..Len(timers) :
          timers[t].status = "fired" /\ timers[t].key = last.key

\* C20: on a started connection every resident envelope has a timer handle
\* and that timer is armed.
C20_ResidentTimerArmed ==
    isReady =>
        \A i \in 1..Len(cache.list) :
            /\ cache.list[i].value.timeoutId # 0
            /\ Armed(cache.list[i].value.timeoutId)

\* a set has replaced an entry: the timer of the replaced envelope is
\* cleared and that envelope is gone, the new one is resident with its timer
\* armed
C20_Witness ==
    /\ isReady
    /\ last.op = "set" /\ last.err = NoError
    /\ \E t \in 1..Len(timers), u \in 1..Len(timers) :
          /\ t < u
          /\ timers[t].key = last.key /\ timers[u].key = last.key
          /\ timers[t].status = "cleared"
          /\ timers[t].armedAt = now
          /\ t \notin Resident(cache.list)
          /\ u \in Resident(cache.list)
          /\ Armed(u)

====
